---- MODULE Spec2Model ----
(***************************************************************************)
(* Model of microsoft_mcp/tools.py: the account tools (list_accounts,      *)
(* authenticate_account, complete_authentication), the mail tools that     *)
(* route attachments (create_email_draft, send_email, list_emails) and the *)
(* other mail, calendar, contact, file and search tools.  An action is one *)
(* whole tool invocation.  The identity service (msal), the auth module    *)
(* and the graph module (request, pagination and upload engines) are not   *)
(* part of tools.py; they are modelled after the design document.          *)
(***************************************************************************)
EXTENDS Integers, Sequences, FiniteSets, TLC

VARIABLES
    token_cache,        \* in-memory msal token cache: entries in insertion order
    has_state_changed,  \* the cache's has_state_changed flag
    persisted,          \* the serialized cache blob on local storage
    svc,                \* identity service: state of every device code
    uri_key,            \* key under which the service names its verification URL
    flow_cache,         \* latest _flow_cache string returned / passed in
    flow,               \* local `flow` of the latest account tool call
    result,             \* local `result` of the latest complete_authentication
    att_sizes,          \* sizes of the attachments argument of the latest mail tool
    calls,              \* calls on app / auth / graph made by the latest invocation
    ret,                \* outcome of the latest invocation (return value or exception)
    input,              \* arguments of the latest invocation and what the service holds
    http,               \* request engine: the HTTP attempts of the call in progress
    session,            \* upload engine: the upload session in progress
    thr                 \* harness threads running complete_authentication concurrently

vars == <<token_cache, has_state_changed, persisted, svc, uri_key, flow_cache, flow,
          result, att_sizes, calls, ret, input, http, session, thr>>

(***************************************************************************)
(* Bounds                                                                  *)
(***************************************************************************)
\* device codes the identity service hands out
MaxFlows == 2
\* attachments of one mail
MaxAtt == 2
\* items one search answers with
MaxItems == 2

DeviceCodes == 1..MaxFlows
Tokens == {1, 2}    \* token versions the service issues

(***************************************************************************)
(* Python values: a dict is a sequence of key/value pairs in insertion     *)
(* order; text that the code searches is a sequence of words.              *)
(***************************************************************************)
PyS(s) == [t |-> "str", v |-> s]
PyI(s) == [t |-> "int", v |-> s]
KV(k, val) == [k |-> k, val |-> val]

Has(d, k) == \E i \in 1..Len(d) : d[i].k = k

\* dict.get(k, default)
Get(d, k, default) ==
    IF Has(d, k) THEN d[CHOOSE i \in 1..Len(d) : d[i].k = k].val ELSE default

Tok(t, v) == [t |-> t, v |-> v]

RECURSIVE PairsStr(_)
PairsStr(d) ==
    IF d = <<>> THEN <<>>
    ELSE LET p == <<Tok("str", d[1].k), Tok(":", ""), Tok(d[1].val.t, d[1].val.v)>>
         IN  IF Len(d) = 1 THEN p ELSE p \o <<Tok(",", "")>> \o PairsStr(Tail(d))

\* str(flow): the repr of a dict of str/int values, as a token sequence
PyStr(d) == <<Tok("{", "")>> \o PairsStr(d) \o <<Tok("}", "")>>

\* ast.literal_eval restricted to dict literals with str keys and str/int
\* values; anything else raises ValueError / SyntaxError (ok = FALSE)
LiteralEval(s) ==
    LET n     == Len(s)
        inner == IF n >= 2 THEN SubSeq(s, 2, n - 1) ELSE <<>>
        m     == Len(inner)
        k     == (m + 1) \div 4
        shape == /\ n >= 2
                 /\ s[1] = Tok("{", "")
                 /\ s[n] = Tok("}", "")
                 /\ (m = 0 \/ m = 4 * k - 1)
                 /\ \A i \in 1..k :
                        /\ inner[4 * i - 3].t = "str"
                        /\ inner[4 * i - 2] = Tok(":", "")
                        /\ inner[4 * i - 1].t \in {"str", "int"}
                        /\ (i < k => inner[4 * i] = Tok(",", ""))
    IN  IF shape /\ m > 0
        THEN [ok |-> TRUE,
              value |-> [i \in 1..k |->
                           KV(inner[4 * i - 3].v,
                              [t |-> inner[4 * i - 1].t, v |-> inner[4 * i - 1].v])]]
        ELSE IF shape THEN [ok |-> TRUE, value |-> <<>>]
        ELSE [ok |-> FALSE, value |-> <<>>]

\* Python's `word in text`
Contains(text, w) == \E i \in 1..Len(text) : text[i] = w

\* str.lower() / str.casefold() on the user and folder names of the model
Lower(s) ==
    CASE s = "Alice@x.com" -> "alice@x.com"
      [] s = "ALICE@X.COM" -> "alice@x.com"
      [] s = "Bob@x.com"   -> "bob@x.com"
      [] s = "Inbox"       -> "inbox"
      [] s = "DRAFTS"      -> "drafts"
      [] s = "Archive"     -> "archive"
      [] s = "Projects"    -> "projects"
      [] s = "Sent Items"  -> "sent items"
      [] s = "Nowhere"     -> "nowhere"
      [] OTHER             -> s

(***************************************************************************)
(* Output records.  calls lists what the invocation called, in order; ret  *)
(* is what it returned or raised.                                          *)
(***************************************************************************)
Call(fn) ==
    [fn |-> fn, method |-> "", path |-> "", account_id |-> "", inline |-> <<>>,
     att |-> 0, size |-> 0, top |-> 0, limit |-> 0, outcome |-> "ok", pages |-> <<>>,
     arg |-> ""]

NoRet ==
    [op |-> "none", outcome |-> "none", exc |-> "", message |-> <<>>, status |-> "",
     username |-> "", account_id |-> "", device_code |-> "", verification_url |-> "",
     expires_in |-> "", accounts |-> <<>>, value |-> "", count |-> 0, items |-> <<>>,
     data |-> <<>>]

Return(op) == [NoRet EXCEPT !.op = op, !.outcome = "return"]
Raise(op, exc, message) ==
    [NoRet EXCEPT !.op = op, !.outcome = "raise", !.exc = exc, !.message = message]

NoResult ==
    [kind |-> "none", error |-> <<>>, has_desc |-> FALSE, error_description |-> <<>>,
     has_pref |-> FALSE, preferred_username |-> "", home_account_id |-> ""]

(***************************************************************************)
(* The harness dispatches one tool call at a time: a tool is invoked when  *)
(* no result is outstanding (Idle), and Deliver hands the result to the    *)
(* caller, which clears the outputs.                                       *)
(***************************************************************************)
NoInput ==
    [account_id |-> "", limit |-> 0, total |-> 0, page |-> 0,
     include_body |-> FALSE, body_max_length |-> 0, message |-> <<>>,
     entity_types |-> <<>>, items |-> <<>>, destination |-> "", listing |-> <<>>]

outputs == <<flow_cache, flow, result, att_sizes, calls, ret, input>>

\* the engines of the graph module and the harness threads, which the
\* whole-invocation actions do not touch
engines == <<http, session, thr>>

Idle == ret.op = "none"

Deliver ==
    /\ ~Idle
    /\ calls' = <<>> /\ ret' = NoRet
    /\ flow_cache' = <<>> /\ flow' = <<>> /\ result' = NoResult /\ att_sizes' = <<>>
    /\ input' = NoInput
    /\ UNCHANGED <<token_cache, has_state_changed, persisted, svc, uri_key>>
    /\ UNCHANGED engines

NCalls(cs, fn) == Cardinality({i \in 1..Len(cs) : cs[i].fn = fn})

(***************************************************************************)
(* The identity service and the msal application object (environment).    *)
(***************************************************************************)
Identities ==
    { [home_account_id |-> "uid1.tenantA", username |-> "Alice@x.com"],
      [home_account_id |-> "uid2.tenantA", username |-> "bob@x.com"],
      [home_account_id |-> "uid3.tenantB", username |-> "alice@x.com"] }

UserCodes == [d \in DeviceCodes |-> IF d = 1 THEN "UC-1" ELSE IF d = 2 THEN "UC-2" ELSE "UC-3"]
DevCodes == [d \in DeviceCodes |-> IF d = 1 THEN "DC-1" ELSE IF d = 2 THEN "DC-2" ELSE "DC-3"]

UriShapes == {"verification_uri", "verification_url", "neither"}

\* a device-flow initiation answer that carries a user code
FlowOk(d, shape) ==
    <<KV("user_code", PyS(UserCodes[d])), KV("device_code", PyS(DevCodes[d]))>>
    \o (IF shape = "neither" THEN <<>>
        ELSE <<KV(shape, PyS("https://login.example/device"))>>)
    \o <<KV("expires_in", PyI("600")), KV("interval", PyI("5"))>>

\* initiation answers without a user code
FlowErrors ==
    { <<KV("error", PyS("invalid_client"))>>,
      <<KV("error", PyS("invalid_client")),
        KV("error_description", PyS("AADSTS7000218"))>> }

DevOf(f) == CHOOSE d \in DeviceCodes : DevCodes[d] = Get(f, "device_code", PyS("")).v

\* texts the service may attach to an error answer
DescAAD == <<"AADSTS70016", "Authorization", "is", "pending", "Continue", "polling">>
DescCode == <<"authorization_pending", "waiting", "for", "the", "user">>
DescExpired == <<"AADSTS70020", "The", "code", "has", "expired">>

PendingCode == <<"authorization_pending">>
OtherCodes == { <<"authorization_declined">>, <<"expired_token">> }

ErrorResult(code, has_desc, desc) ==
    [NoResult EXCEPT !.kind = "error", !.error = code, !.has_desc = has_desc,
                     !.error_description = IF has_desc THEN desc ELSE <<>>]

ErrorResults(codes, descriptions) ==
    {ErrorResult(c, FALSE, <<>>) : c \in codes}
    \cup {ErrorResult(c, TRUE, x) : c \in codes, x \in descriptions}

\* the preferred_username claim a token for identity id may carry
ClaimsFor(id) == {id.username, Lower(id.username)}

SuccessResults(id) ==
    {[NoResult EXCEPT !.kind = "success", !.home_account_id = id.home_account_id]}
    \cup {[NoResult EXCEPT !.kind = "success", !.home_account_id = id.home_account_id,
                           !.has_pref = TRUE, !.preferred_username = u] : u \in ClaimsFor(id)}

\* TokenCache.add: an account already cached keeps its place, a new one is appended
CacheAdd(cache, id, t) ==
    IF \E i \in 1..Len(cache) : cache[i].home_account_id = id.home_account_id
    THEN [i \in 1..Len(cache) |->
            IF cache[i].home_account_id = id.home_account_id
            THEN [cache[i] EXCEPT !.token = t] ELSE cache[i]]
    ELSE Append(cache, [home_account_id |-> id.home_account_id,
                        username |-> id.username, token |-> t])

\* SerializableTokenCache.serialize / deserialize
Serialize(cache) ==
    [i \in 1..Len(cache) |-> <<cache[i].home_account_id, cache[i].username, cache[i].token>>]
Deserialize(blob) ==
    [i \in 1..Len(blob) |->
        [home_account_id |-> blob[i][1], username |-> blob[i][2], token |-> blob[i][3]]]

\* app.get_accounts()
GetAccounts(cache) ==
    [i \in 1..Len(cache) |->
        [home_account_id |-> cache[i].home_account_id, username |-> cache[i].username]]

\* app.initiate_device_flow: the next unused device code, or an error answer
Unissued == {d \in DeviceCodes : svc[d] = "unissued"}
InitiateAnswers ==
    FlowErrors
    \cup (IF Unissued = {} THEN {}
          ELSE {FlowOk(CHOOSE d \in Unissued : \A e \in Unissued : d <= e, uri_key)})

\* app.acquire_token_by_device_flow: one answer of the service for device code d
\* (r: the result dict; t: the token the answer carries, 0 for an error answer)
PollAnswers(d) ==
    CASE svc[d] = "pending" ->
            {[r |-> x, t |-> 0] : x \in ErrorResults({PendingCode}, {DescAAD, DescCode})}
      [] svc[d] = "authorized" ->
            {[r |-> x, t |-> t] :
                x \in UNION {SuccessResults(id) : id \in Identities}, t \in Tokens}
      [] OTHER ->
            {[r |-> x, t |-> 0] : x \in ErrorResults(OtherCodes, {DescExpired, DescCode})}

IdentityOf(r) == CHOOSE id \in Identities : id.home_account_id = r.home_account_id

\* flow_cache strings a caller may pass: a _flow_cache that authenticate_account
\* returned, such a string cut short, or the empty string
Truncated(g) == SubSeq(g, 1, Len(g) - 1)
FlowCacheInputs ==
    LET Issued == DeviceCodes \ Unissued
    IN  {PyStr(FlowOk(d, uri_key)) : d \in Issued}
        \cup {Truncated(PyStr(FlowOk(d, uri_key))) : d \in Issued}
        \cup {<<>>}

(***************************************************************************)
(* list_accounts (tools.py 67-73)                                          *)
(***************************************************************************)
ListAccounts ==
    /\ Idle
    /\ input' = NoInput
    /\ UNCHANGED engines
    /\ calls' = <<Call("list_accounts")>>
    /\ ret' = [Return("list_accounts") EXCEPT
                 !.accounts = [i \in 1..Len(token_cache) |->
                                 [username |-> GetAccounts(token_cache)[i].username,
                                  account_id |-> GetAccounts(token_cache)[i].home_account_id]]]
    /\ flow_cache' = <<>> /\ flow' = <<>> /\ result' = NoResult /\ att_sizes' = <<>>
    /\ UNCHANGED <<token_cache, has_state_changed, persisted, svc, uri_key>>

(***************************************************************************)
(* authenticate_account (tools.py 76-106)                                  *)
(***************************************************************************)
DefaultVerificationUrl == "https://microsoft.com/devicelogin"

\* variant: the verification_uri key is not looked up
VerificationUrlLegacyOnly(f) ==
    Get(f, "verification_url", PyS(DefaultVerificationUrl)).v

\* tools.py 90-93
VerificationUrl(f) ==
    Get(f, "verification_uri",
        Get(f, "verification_url", PyS(DefaultVerificationUrl))).v

AuthenticateAccount ==
    /\ Idle
    /\ input' = NoInput
    /\ UNCHANGED engines
    /\ \E f \in InitiateAnswers :
        /\ flow' = f
        /\ calls' = <<Call("initiate_device_flow")>>
        /\ svc' = IF Has(f, "device_code") THEN [svc EXCEPT ![DevOf(f)] = "pending"]
                  ELSE svc
        /\ IF ~Has(f, "user_code")
           THEN /\ ret' = Raise("authenticate_account", "Exception",
                                <<"Failed", "to", "get", "device", "code:",
                                  Get(f, "error_description", PyS("Unknown error")).v>>)
                /\ flow_cache' = <<>>
           ELSE /\ ret' = [Return("authenticate_account") EXCEPT
                             !.status = "authentication_required",
                             !.device_code = Get(f, "user_code", PyS("")).v,
                             !.verification_url = VerificationUrl(f),
                             !.expires_in = Get(f, "expires_in", PyI("900")).v]
                /\ flow_cache' = PyStr(f)
        /\ result' = NoResult /\ att_sizes' = <<>>
        /\ UNCHANGED <<token_cache, has_state_changed, persisted, uri_key>>

(***************************************************************************)
(* complete_authentication (tools.py 109-173)                              *)
(***************************************************************************)
\* tools.py 130
ErrorMsg(r) == IF r.has_desc THEN r.error_description ELSE r.error

\* tools.py 131
IsPending(r) == Contains(ErrorMsg(r), "authorization_pending")

\* variant: the has_state_changed test is dropped
ShouldWriteAlways(changed) == TRUE

\* tools.py 141: write only a cache whose state has changed
ShouldWrite(changed) == changed

\* variant: a parsed flow is polled a second time within the call
PollCallsRetrying(parsed_ok) ==
    IF parsed_ok
    THEN <<Call("acquire_token_by_device_flow"), Call("acquire_token_by_device_flow")>>
    ELSE <<>>

\* tools.py 119-127: the service is polled once, after the flow value parsed
PollCalls(parsed_ok) ==
    IF parsed_ok THEN <<Call("acquire_token_by_device_flow")>> ELSE <<>>

PrefUsername(r) == IF r.has_pref THEN r.preferred_username ELSE ""

Success(account) ==
    [Return("complete_authentication") EXCEPT
        !.status = "success", !.username = account.username,
        !.account_id = account.home_account_id,
        !.message = <<"Successfully", "authenticated", account.username>>]

\* variant: the usernames are compared without lower-casing
MatchAccountExact(accounts, r) ==
    LET hits == {i \in 1..Len(accounts) : accounts[i].username = PrefUsername(r)}
    IN  IF accounts = <<>>
        THEN [Return("complete_authentication") EXCEPT !.status = "error"]
        ELSE IF hits # {}
        THEN Success(accounts[CHOOSE i \in hits : \A j \in hits : i <= j])
        ELSE Success(accounts[Len(accounts)])

\* tools.py 145-173: the first account whose username matches the token's
\* preferred_username (lower-cased), else the last account
MatchAccount(accounts, r) ==
    LET hits == {i \in 1..Len(accounts) :
                    Lower(accounts[i].username) = Lower(PrefUsername(r))}
    IN  IF accounts = <<>>
        THEN [Return("complete_authentication") EXCEPT
                !.status = "error",
                !.message = <<"Authentication", "succeeded", "but", "no", "account",
                              "was", "found">>]
        ELSE IF hits # {}
        THEN Success(accounts[CHOOSE i \in hits : \A j \in hits : i <= j])
        ELSE Success(accounts[Len(accounts)])

Complete(f, r, t) ==
    /\ flow' = f
    /\ result' = r
    /\ IF r.kind = "error"
       THEN /\ calls' = PollCalls(TRUE)
            /\ ret' = IF IsPending(r)
                      THEN [Return("complete_authentication") EXCEPT
                              !.status = "pending",
                              !.message = <<"Authentication", "is", "still", "pending">>]
                      ELSE Raise("complete_authentication", "Exception",
                                 <<"Authentication", "failed:">> \o ErrorMsg(r))
            /\ UNCHANGED <<token_cache, has_state_changed, persisted, svc, uri_key>>
       ELSE LET cache1  == CacheAdd(token_cache, IdentityOf(r), t)
                changed == has_state_changed \/ cache1 # token_cache
                write   == ShouldWrite(changed)
            IN  /\ token_cache' = cache1
                /\ svc' = [svc EXCEPT ![DevOf(f)] = "redeemed"]
                /\ has_state_changed' = IF write THEN FALSE ELSE changed
                /\ persisted' = IF write THEN Serialize(cache1) ELSE persisted
                /\ calls' = PollCalls(TRUE)
                            \o (IF write THEN <<Call("_write_cache")>> ELSE <<>>)
                            \o <<Call("get_accounts")>>
                /\ ret' = MatchAccount(GetAccounts(cache1), r)
                /\ UNCHANGED uri_key

CompleteAuthentication ==
    /\ Idle
    /\ input' = NoInput
    /\ UNCHANGED engines
    /\ \E fc \in FlowCacheInputs :
        LET p == LiteralEval(fc)
        IN  /\ flow_cache' = fc
            /\ att_sizes' = <<>>
            /\ IF ~p.ok
               THEN /\ ret' = Raise("complete_authentication", "ValueError",
                                    <<"Invalid", "flow", "cache", "data">>)
                    /\ calls' = PollCalls(FALSE)
                    /\ flow' = <<>>
                    /\ result' = NoResult
                    /\ UNCHANGED <<token_cache, has_state_changed, persisted, svc, uri_key>>
               ELSE \E a \in PollAnswers(DevOf(p.value)) : Complete(p.value, a.r, a.t)

(***************************************************************************)
(* Environment steps between tool calls: the user verifies a code; a code  *)
(* is denied or runs out.                                                  *)
(***************************************************************************)
UserVerifies ==
    /\ Idle
    /\ \E d \in DeviceCodes :
        /\ svc[d] = "pending"
        /\ svc' = [svc EXCEPT ![d] = "authorized"]
        /\ UNCHANGED <<token_cache, has_state_changed, persisted, uri_key, outputs>>
        /\ UNCHANGED engines

FlowDies ==
    /\ Idle
    /\ \E d \in DeviceCodes :
        /\ svc[d] \in {"pending", "authorized"}
        /\ svc' = [svc EXCEPT ![d] = "dead"]
        /\ UNCHANGED <<token_cache, has_state_changed, persisted, uri_key, outputs>>
        /\ UNCHANGED engines

(***************************************************************************)
(* The graph module (environment).  A call returns a response ("ok"),      *)
(* returns nothing ("absent") or raises; an account without a usable token *)
(* makes the first call raise ReauthRequired.                              *)
(***************************************************************************)
Raises == {"ReauthRequired", "PermanentRequestError"}
IsRaise(x) == x \in Raises

CachedIds == {token_cache[i].home_account_id : i \in 1..Len(token_cache)}

RECURSIVE Runs(_)
Runs(n) ==
    IF n = 0 THEN {<<>>}
    ELSE {<<x>> : x \in Raises}
         \cup {<<x>> \o r : x \in {"ok", "absent"}, r \in Runs(n - 1)}

\* the outcomes of the successive graph calls of one invocation that would
\* make n calls: all of them return, or one raises and ends the invocation
GraphRuns(account_id, n) ==
    IF account_id \in CachedIds THEN Runs(n) ELSE {<<"ReauthRequired">>}

Min(a, b) == IF a < b THEN a ELSE b

\* the calls of plan that were made, each with the outcome it had
Made(plan, o) ==
    [i \in 1..Min(Len(plan), Len(o)) |-> [plan[i] EXCEPT !.outcome = o[i]]]

\* variant: the request goes out for the first signed-in account
RequestDefaultAccount(method, path, account_id) ==
    [Call("request") EXCEPT
        !.method = method, !.path = path,
        !.account_id = IF token_cache # <<>> THEN token_cache[1].home_account_id
                       ELSE account_id]

Request(method, path, account_id) ==
    [Call("request") EXCEPT !.method = method, !.path = path, !.account_id = account_id]

Upload(att, size, account_id) ==
    [Call("upload_large_mail_attachment") EXCEPT
        !.att = att, !.size = size, !.account_id = account_id]

ToolAccounts == {"uid1.tenantA", "uid3.tenantB"}

(***************************************************************************)
(* No tool wraps its graph calls in try/except (e.g. tools.py 197-204): an *)
(* exception of a graph call ends the tool and reaches the caller.         *)
(***************************************************************************)
\* variant: a tool answers a missing token by starting the device flow itself
PropagateAfterLogin(op, made, exc) ==
    [calls |-> IF exc = "ReauthRequired"
               THEN Append(made, Call("initiate_device_flow")) ELSE made,
     ret |-> Raise(op, exc, <<>>)]

Propagate(op, made, exc) == [calls |-> made, ret |-> Raise(op, exc, <<>>)]

Finish(out) ==
    /\ calls' = out.calls
    /\ ret' = out.ret
    /\ flow_cache' = <<>> /\ flow' = <<>> /\ result' = NoResult
    /\ UNCHANGED <<token_cache, has_state_changed, persisted, svc, uri_key>>
    /\ UNCHANGED engines

(***************************************************************************)
(* list_emails (tools.py 176-206)                                          *)
(***************************************************************************)
\* tools.py 54-64, 184: FOLDERS.get(folder.casefold(), folder)
FolderPath(folder) ==
    LET k == Lower(folder)
    IN  CASE k = "inbox"   -> "inbox"
          [] k = "sent"    -> "sentitems"
          [] k = "drafts"  -> "drafts"
          [] k = "deleted" -> "deleteditems"
          [] k = "junk"    -> "junkemail"
          [] k = "archive" -> "archive"
          [] OTHER         -> folder

PageCap == 100

\* variant: the requested page size is the limit itself
TopUncapped(limit) == limit

\* tools.py 192, 713, 797, 947, 1001: "$top": min(limit, 100)
Top(limit) == Min(limit, PageCap)

(***************************************************************************)
(* graph.request_paginated, after the design document (4.3).  The service  *)
(* holds the items 1..total in its order and answers a page request at an  *)
(* offset with at most ps items and a cursor when more remain.  The walk   *)
(* yields item by item, stops as soon as limit items were yielded, and     *)
(* asks for the next page only with the cursor of the previous one.        *)
(***************************************************************************)
PageSizes == {2, 1000}
Totals == {0, 3, 5}
Limits == {0, 3, 150}

RECURSIVE Walk(_, _, _, _, _)
Walk(total, ps, limit, offset, acc) ==
    LET got    == Min(ps, total - offset)
        cursor == offset + got < total
        take   == Min(got, limit - Len(acc.items))
        items  == acc.items \o [k \in 1..take |-> offset + k]
        log    == Append(acc.log, [offset |-> offset, n |-> got, cursor |-> cursor])
    IN  IF Len(items) >= limit \/ ~cursor
        THEN [log |-> log, items |-> items]
        ELSE Walk(total, ps, limit, offset + got, [log |-> log, items |-> items])

Paginate(total, page, top, limit) ==
    IF limit = 0 THEN [log |-> <<>>, items |-> <<>>]
    ELSE Walk(total, IF top > 0 THEN Min(top, page) ELSE page, limit, 0,
              [log |-> <<>>, items |-> <<>>])

\* outcomes of one request_paginated call: without a page request nothing
\* can fail, and a list endpoint answers with a page object
PageRuns(account_id, limit) ==
    IF limit = 0 THEN {<<"ok">>}
    ELSE {o \in GraphRuns(account_id, 1) : o[1] # "absent"}

\* a tool that returns list(graph.request_paginated(path, account_id,
\* params={"$top": min(limit, 100), ...}, limit=limit))
ListOut(op, path, account_id, limit, o, total, page) ==
    LET walk == IF o[1] = "ok" THEN Paginate(total, page, Top(limit), limit)
                ELSE [log |-> IF limit = 0 THEN <<>>
                              ELSE <<[offset |-> 0, n |-> 0, cursor |-> FALSE]>>,
                      items |-> <<>>]
        made == <<[Call("request_paginated") EXCEPT
                     !.path = path, !.account_id = account_id,
                     !.top = Top(limit), !.limit = limit,
                     !.outcome = o[1], !.pages = walk.log]>>
    IN  IF IsRaise(o[1]) THEN Propagate(op, made, o[1])
        ELSE [calls |-> made,
              ret |-> [Return(op) EXCEPT !.count = Len(walk.items),
                                         !.items = walk.items]]

ListInput(account_id, limit, total, page) ==
    [NoInput EXCEPT !.account_id = account_id, !.limit = limit,
                    !.total = total, !.page = page]

ListEmailsOut(account_id, folder, limit, o, total, page) ==
    ListOut("list_emails", FolderPath(folder), account_id, limit, o, total, page)

ListEmails ==
    /\ Idle
    /\ \E account_id \in ToolAccounts, folder \in {"Inbox", "Projects"},
          limit \in Limits, total \in Totals, page \in PageSizes :
        \E o \in PageRuns(account_id, limit) :
            /\ att_sizes' = <<>>
            /\ input' = ListInput(account_id, limit, total, page)
            /\ Finish(ListEmailsOut(account_id, folder, limit, o, total, page))

(***************************************************************************)
(* create_email_draft (tools.py 256-329) and send_email (tools.py 332-443) *)
(***************************************************************************)
AttachmentThreshold == 3 * 1024 * 1024
AttSizes == {AttachmentThreshold - 1, AttachmentThreshold, 5 * 1024 * 1024}
AttLists == UNION {[1..n -> AttSizes] : n \in 0..MaxAtt}

Indices(sizes) == [i \in 1..Len(sizes) |-> i]

\* variant: the boundary size itself still counts as small
DraftIsSmallInclusive(size) == size <= AttachmentThreshold

\* tools.py 294
DraftIsSmall(size) == size < AttachmentThreshold

\* tools.py 380
SendHasLarge(size) == size >= AttachmentThreshold

\* tools.py 416
SendIsLarge(size) == size >= AttachmentThreshold

ValueError(op, made, text) == [calls |-> made, ret |-> Raise(op, "ValueError", text)]

RECURSIVE FirstRaise(_)
FirstRaise(o) ==
    IF o = <<>> THEN "" ELSE IF IsRaise(o[1]) THEN o[1] ELSE FirstRaise(Tail(o))

DraftPlan(account_id, sizes) ==
    LET small == SelectSeq(Indices(sizes), LAMBDA i : DraftIsSmall(sizes[i]))
        large == SelectSeq(Indices(sizes), LAMBDA i : ~DraftIsSmall(sizes[i]))
    IN  <<[Request("POST", "/me/messages", account_id) EXCEPT !.inline = small]>>
        \o [k \in 1..Len(large) |-> Upload(large[k], sizes[large[k]], account_id)]

CreateEmailDraftOut(account_id, sizes, o) ==
    LET plan == DraftPlan(account_id, sizes)
        made == Made(plan, o)
    IN  IF IsRaise(o[1]) THEN Propagate("create_email_draft", made, o[1])
        ELSE IF o[1] = "absent"
        THEN ValueError("create_email_draft", SubSeq(made, 1, 1),
                        <<"Failed", "to", "create", "email", "draft">>)
        ELSE IF FirstRaise(o) # ""
        THEN Propagate("create_email_draft", made, FirstRaise(o))
        ELSE [calls |-> made,
              ret |-> [Return("create_email_draft") EXCEPT !.value = "response"]]

CreateEmailDraft ==
    /\ Idle
    /\ \E account_id \in ToolAccounts, sizes \in AttLists :
        \E o \in GraphRuns(account_id, Len(DraftPlan(account_id, sizes))) :
            /\ att_sizes' = sizes
            /\ input' = [NoInput EXCEPT !.account_id = account_id]
            /\ Finish(CreateEmailDraftOut(account_id, sizes, o))

Sent == [Return("send_email") EXCEPT !.status = "sent"]

\* variant: the draft is sent before its attachments are added
SendPlanSendFirst(account_id, sizes) ==
    LET has_large == \E i \in 1..Len(sizes) : SendHasLarge(sizes[i])
    IN  IF ~has_large /\ sizes # <<>>
        THEN <<[Request("POST", "/me/sendMail", account_id) EXCEPT
                  !.inline = Indices(sizes)]>>
        ELSE IF has_large
        THEN <<Request("POST", "/me/messages", account_id)>>
             \o <<Request("POST", "/me/messages/{message_id}/send", account_id)>>
             \o [i \in 1..Len(sizes) |->
                   IF SendIsLarge(sizes[i])
                   THEN Upload(i, sizes[i], account_id)
                   ELSE [Request("POST", "/me/messages/{message_id}/attachments",
                                 account_id) EXCEPT !.att = i, !.size = sizes[i]]]
        ELSE <<Request("POST", "/me/sendMail", account_id)>>

SendPlan(account_id, sizes) ==
    LET has_large == \E i \in 1..Len(sizes) : SendHasLarge(sizes[i])
    IN  IF ~has_large /\ sizes # <<>>
        THEN <<[Request("POST", "/me/sendMail", account_id) EXCEPT
                  !.inline = Indices(sizes)]>>
        ELSE IF has_large
        THEN <<Request("POST", "/me/messages", account_id)>>
             \o [i \in 1..Len(sizes) |->
                   IF SendIsLarge(sizes[i])
                   THEN Upload(i, sizes[i], account_id)
                   ELSE [Request("POST", "/me/messages/{message_id}/attachments",
                                 account_id) EXCEPT !.att = i, !.size = sizes[i]]]
             \o <<Request("POST", "/me/messages/{message_id}/send", account_id)>>
        ELSE <<Request("POST", "/me/sendMail", account_id)>>

SendEmailOut(account_id, sizes, o) ==
    LET plan  == SendPlan(account_id, sizes)
        made  == Made(plan, o)
        draft == plan[1].path = "/me/messages"
    IN  IF IsRaise(o[1]) THEN Propagate("send_email", made, o[1])
        ELSE IF draft /\ o[1] = "absent"
        THEN ValueError("send_email", SubSeq(made, 1, 1),
                        <<"Failed", "to", "create", "email", "draft">>)
        ELSE IF FirstRaise(o) # ""
        THEN Propagate("send_email", made, FirstRaise(o))
        ELSE [calls |-> made, ret |-> Sent]

SendEmail ==
    /\ Idle
    /\ \E account_id \in ToolAccounts, sizes \in AttLists :
        \E o \in GraphRuns(account_id, Len(SendPlan(account_id, sizes))) :
            /\ att_sizes' = sizes
            /\ input' = [NoInput EXCEPT !.account_id = account_id]
            /\ Finish(SendEmailOut(account_id, sizes, o))

(***************************************************************************)
(* Tools that make one graph.request                                       *)
(***************************************************************************)
\* the arguments are recorded and the invocation's outcome is published
Invoke(account_id, out) ==
    /\ att_sizes' = <<>>
    /\ input' = [NoInput EXCEPT !.account_id = account_id]
    /\ Finish(out)

\* variant: a request without a response body is taken for a failed one
StatusOutStrict(op, req, status, o) ==
    IF IsRaise(o[1]) THEN Propagate(op, Made(<<req>>, o), o[1])
    ELSE IF o[1] = "absent"
    THEN ValueError(op, Made(<<req>>, o), <<"no", "response">>)
    ELSE [calls |-> Made(<<req>>, o), ret |-> [Return(op) EXCEPT !.status = status]]

\* tools.py 462-463, 505-506, 514-515, 659-662, 677-678, 782-783, 877-878:
\* the response of the request is not looked at
StatusOut(op, req, status, o) ==
    IF IsRaise(o[1]) THEN Propagate(op, Made(<<req>>, o), o[1])
    ELSE [calls |-> Made(<<req>>, o), ret |-> [Return(op) EXCEPT !.status = status]]

\* tools.py 650, 776: return result or {"status": "updated"}
ResultOrUpdatedOut(op, req, o) ==
    IF IsRaise(o[1]) THEN Propagate(op, Made(<<req>>, o), o[1])
    ELSE IF o[1] = "absent"
    THEN [calls |-> Made(<<req>>, o), ret |-> [Return(op) EXCEPT !.status = "updated"]]
    ELSE [calls |-> Made(<<req>>, o), ret |-> [Return(op) EXCEPT !.value = "response"]]

\* tools.py 454-456, 560-562, 611-613, 726-728, 763-765:
\* if not result: raise ValueError(...); return result
RequiredOut(op, req, text, o) ==
    IF IsRaise(o[1]) THEN Propagate(op, Made(<<req>>, o), o[1])
    ELSE IF o[1] = "absent" THEN ValueError(op, Made(<<req>>, o), text)
    ELSE [calls |-> Made(<<req>>, o), ret |-> [Return(op) EXCEPT !.value = "response"]]

\* tools.py 446-456
UpdateEmail ==
    /\ Idle
    /\ \E account_id \in ToolAccounts : \E o \in GraphRuns(account_id, 1) :
        Invoke(account_id,
          RequiredOut("update_email",
                   Request("PATCH", "/me/messages/{email_id}", account_id),
                   <<"Failed", "to", "update", "email", "-", "no", "response">>, o))

\* tools.py 459-463
DeleteEmail ==
    /\ Idle
    /\ \E account_id \in ToolAccounts : \E o \in GraphRuns(account_id, 1) :
        Invoke(account_id,
          StatusOut("delete_email",
                 Request("DELETE", "/me/messages/{email_id}", account_id),
                 "deleted", o))

\* tools.py 500-506
ReplyToEmail ==
    /\ Idle
    /\ \E account_id \in ToolAccounts : \E o \in GraphRuns(account_id, 1) :
        Invoke(account_id,
          StatusOut("reply_to_email",
                 Request("POST", "/me/messages/{email_id}/reply", account_id),
                 "sent", o))

\* tools.py 509-515
ReplyAllEmail ==
    /\ Idle
    /\ \E account_id \in ToolAccounts : \E o \in GraphRuns(account_id, 1) :
        Invoke(account_id,
          StatusOut("reply_all_email",
                 Request("POST", "/me/messages/{email_id}/replyAll", account_id),
                 "sent", o))

\* tools.py 556-562
GetEvent ==
    /\ Idle
    /\ \E account_id \in ToolAccounts : \E o \in GraphRuns(account_id, 1) :
        Invoke(account_id,
          RequiredOut("get_event", Request("GET", "/me/events/{event_id}", account_id),
                   <<"Event", "not", "found">>, o))

\* tools.py 565-613
CreateEvent ==
    /\ Idle
    /\ \E account_id \in ToolAccounts : \E o \in GraphRuns(account_id, 1) :
        Invoke(account_id,
          RequiredOut("create_event", Request("POST", "/me/events", account_id),
                   <<"Failed", "to", "create", "event">>, o))

\* tools.py 616-650
UpdateEvent ==
    /\ Idle
    /\ \E account_id \in ToolAccounts : \E o \in GraphRuns(account_id, 1) :
        Invoke(account_id,
          ResultOrUpdatedOut("update_event",
                          Request("PATCH", "/me/events/{event_id}", account_id), o))

\* tools.py 722-728
GetContact ==
    /\ Idle
    /\ \E account_id \in ToolAccounts : \E o \in GraphRuns(account_id, 1) :
        Invoke(account_id,
          RequiredOut("get_contact",
                   Request("GET", "/me/contacts/{contact_id}", account_id),
                   <<"Contact", "not", "found">>, o))

\* tools.py 731-765
CreateContact ==
    /\ Idle
    /\ \E account_id \in ToolAccounts : \E o \in GraphRuns(account_id, 1) :
        Invoke(account_id,
          RequiredOut("create_contact", Request("POST", "/me/contacts", account_id),
                   <<"Failed", "to", "create", "contact">>, o))

\* tools.py 768-776
UpdateContact ==
    /\ Idle
    /\ \E account_id \in ToolAccounts : \E o \in GraphRuns(account_id, 1) :
        Invoke(account_id,
          ResultOrUpdatedOut("update_contact",
                          Request("PATCH", "/me/contacts/{contact_id}", account_id), o))

\* tools.py 779-783
DeleteContact ==
    /\ Idle
    /\ \E account_id \in ToolAccounts : \E o \in GraphRuns(account_id, 1) :
        Invoke(account_id,
          StatusOut("delete_contact",
                 Request("DELETE", "/me/contacts/{contact_id}", account_id),
                 "deleted", o))

\* tools.py 874-878
DeleteFile ==
    /\ Idle
    /\ \E account_id \in ToolAccounts : \E o \in GraphRuns(account_id, 1) :
        Invoke(account_id,
          StatusOut("delete_file",
                 Request("DELETE", "/me/drive/items/{file_id}", account_id),
                 "deleted", o))

\* tools.py 653-662
DeleteEvent ==
    /\ Idle
    /\ \E account_id \in ToolAccounts, send_cancellation \in BOOLEAN :
        \E o \in GraphRuns(account_id, 1) :
            Invoke(account_id,
              StatusOut("delete_event",
                 IF send_cancellation
                 THEN Request("POST", "/me/events/{event_id}/cancel", account_id)
                 ELSE Request("DELETE", "/me/events/{event_id}", account_id),
                 "deleted", o))

\* tools.py 665-678
RespondEvent ==
    /\ Idle
    /\ \E account_id \in ToolAccounts,
          response \in {"accept", "decline", "tentativelyAccept"} :
        \E o \in GraphRuns(account_id, 1) :
            Invoke(account_id,
              StatusOut("respond_event",
                 [Request("POST", "/me/events/{event_id}/{response}", account_id)
                     EXCEPT !.arg = response],
                 response, o))

(***************************************************************************)
(* check_availability (tools.py 681-707)                                   *)
(***************************************************************************)
CheckAvailabilityOut(account_id, profile, o) ==
    LET plan == <<Request("GET", "/me", account_id),
                  Request("POST", "/me/calendar/getSchedule", account_id)>>
        made == Made(plan, o)
    IN  IF IsRaise(o[1]) THEN Propagate("check_availability", made, o[1])
        ELSE IF o[1] = "absent" \/ profile = "no_mail"
        THEN ValueError("check_availability", SubSeq(made, 1, 1),
                        <<"Failed", "to", "get", "user", "email", "address">>)
        ELSE IF IsRaise(o[2]) THEN Propagate("check_availability", made, o[2])
        ELSE IF o[2] = "absent"
        THEN ValueError("check_availability", made,
                        <<"Failed", "to", "check", "availability">>)
        ELSE [calls |-> made,
              ret |-> [Return("check_availability") EXCEPT !.value = "response"]]

CheckAvailability ==
    /\ Idle
    \* profile: what GET /me answers with, with or without the mail key
    /\ \E account_id \in ToolAccounts, profile \in {"mail", "no_mail"} :
        \E o \in GraphRuns(account_id, 2) :
            Invoke(account_id, CheckAvailabilityOut(account_id, profile, o))

(***************************************************************************)
(* move_email (tools.py 466-497)                                           *)
(***************************************************************************)
Folder(displayName, id) == [displayName |-> displayName, id |-> id]

\* what GET /me/mailFolders answers with: a dict without "value", or one
\* whose "value" lists folders
Listings ==
    { [has_value |-> FALSE, value |-> <<>>],
      [has_value |-> TRUE, value |-> <<>>],
      [has_value |-> TRUE,
       value |-> <<Folder("Inbox", "F-inbox"), Folder("Sent Items", "F-sent"),
                   Folder("Archive", "F-archive")>>],
      [has_value |-> TRUE,
       value |-> <<Folder("projects", "F-p1"), Folder("Projects", "F-p2")>>] }

\* variant: the display name is compared as it is spelled
FolderIdExact(value, folder_path) ==
    LET hits == {i \in 1..Len(value) : value[i].displayName = folder_path}
    IN  IF hits = {} THEN ""
        ELSE value[CHOOSE i \in hits : \A j \in hits : i <= j].id

\* tools.py 481-484: the id of the first folder whose lower-cased display
\* name is the lower-cased folder path ("" stands for None)
FolderId(value, folder_path) ==
    LET hits == {i \in 1..Len(value) :
                    Lower(value[i].displayName) = Lower(folder_path)}
    IN  IF hits = {} THEN ""
        ELSE value[CHOOSE i \in hits : \A j \in hits : i <= j].id

MoveEmailOut(account_id, destination_folder, folders, moved, o) ==
    LET folder_path == FolderPath(destination_folder)
        folder_id   == FolderId(folders.value, folder_path)
        plan == <<Request("GET", "/me/mailFolders", account_id),
                  [Request("POST", "/me/messages/{email_id}/move", account_id)
                      EXCEPT !.arg = folder_id]>>
        made == Made(plan, o)
        listed == SubSeq(made, 1, 1)
    IN  IF IsRaise(o[1]) THEN Propagate("move_email", made, o[1])
        ELSE IF o[1] = "absent"
        THEN ValueError("move_email", listed,
                        <<"Failed", "to", "retrieve", "mail", "folders">>)
        ELSE IF ~folders.has_value
        THEN ValueError("move_email", listed,
                        <<"Unexpected", "folder", "response", "structure">>)
        ELSE IF folder_id = ""
        THEN ValueError("move_email", listed,
                        <<"Folder", destination_folder, "not", "found">>)
        ELSE IF IsRaise(o[2]) THEN Propagate("move_email", made, o[2])
        ELSE IF o[2] = "absent"
        THEN ValueError("move_email", made,
                        <<"Failed", "to", "move", "email", "-", "no", "response">>)
        ELSE IF moved = ""
        THEN ValueError("move_email", made,
                        <<"Failed", "to", "move", "email", "-", "unexpected", "response">>)
        ELSE [calls |-> made,
              ret |-> [Return("move_email") EXCEPT !.status = "moved", !.value = moved]]

MoveEmail ==
    /\ Idle
    \* moved: the id in the answer of the move request ("" when it has none)
    /\ \E account_id \in ToolAccounts,
          destination_folder \in {"Archive", "Projects", "sent", "Nowhere"},
          folders \in Listings, moved \in {"M-2", ""} :
        \E o \in GraphRuns(account_id, 2) :
            /\ att_sizes' = <<>>
            /\ input' = [NoInput EXCEPT !.account_id = account_id,
                                        !.destination = destination_folder,
                                        !.listing = folders,
                                        !.message = <<moved>>]
            /\ Finish(MoveEmailOut(account_id, destination_folder, folders, moved, o))

(***************************************************************************)
(* get_email (tools.py 209-253)                                            *)
(***************************************************************************)
\* a text of n characters
Text(n) == SubSeq(<<"a", "b", "c", "d", "e", "f", "g", "h", "i", "j", "k", "l">>, 1, n)

\* str(n) of a natural number, as characters
RECURSIVE Decimal(_)
Decimal(n) ==
    LET digit(d) == <<"0", "1", "2", "3", "4", "5", "6", "7", "8", "9">>[d + 1]
    IN  IF n < 10 THEN <<digit(n)>> ELSE Decimal(n \div 10) \o <<digit(n % 10)>>

\* tools.py 240: f"\n\n[Content truncated - {len(content)} total characters]"
TruncationNote(n) ==
    <<"\n", "\n", "[", "C", "o", "n", "t", "e", "n", "t", " ", "t", "r",
      "u", "n", "c", "a", "t", "e", "d", " ", "-", " ">>
    \o Decimal(n) \o
    <<" ", "t", "o", "t", "a", "l", " ", "c", "h", "a", "r", "a", "c", "t",
      "e", "r", "s", "]">>

\* messages the service may hold: with or without a body, a body with or
\* without content, attachments with or without contentBytes
Attachment(has_bytes) == [name |-> "a.bin", has_bytes |-> has_bytes]
NoBody == [present |-> FALSE, has_content |-> FALSE, content |-> <<>>,
           truncated |-> FALSE, total_length |-> 0]
Body(n) == [NoBody EXCEPT !.present = TRUE, !.has_content = TRUE, !.content = Text(n)]
Messages ==
    { [body |-> b, has_attachments |-> h, attachments |-> a] :
        b \in {NoBody, [NoBody EXCEPT !.present = TRUE], Body(0), Body(5), Body(12)},
        h \in {TRUE},
        a \in {<<>>, <<Attachment(TRUE), Attachment(FALSE)>>} }
    \cup {[body |-> Body(5), has_attachments |-> FALSE, attachments |-> <<>>]}

\* tools.py 236-243
TrimBody(body, body_max_length) ==
    IF Len(body.content) > body_max_length
    THEN [body EXCEPT !.content = SubSeq(body.content, 1, body_max_length)
                                  \o TruncationNote(Len(body.content)),
                      !.truncated = TRUE, !.total_length = Len(body.content)]
    ELSE body

\* tools.py 248-251
StripContentBytes(attachments) ==
    [i \in 1..Len(attachments) |-> [attachments[i] EXCEPT !.has_bytes = FALSE]]

GetEmailOut(account_id, include_body, body_max_length, msg, o) ==
    LET made == Made(<<Request("GET", "/me/messages/{email_id}", account_id)>>, o)
        body == IF include_body /\ msg.body.present /\ msg.body.has_content
                THEN TrimBody(msg.body, body_max_length)
                ELSE IF ~include_body /\ msg.body.present THEN NoBody
                ELSE msg.body
        atts == IF msg.has_attachments /\ msg.attachments # <<>>
                THEN StripContentBytes(msg.attachments) ELSE msg.attachments
    IN  IF IsRaise(o[1]) THEN Propagate("get_email", made, o[1])
        ELSE IF o[1] = "absent"
        THEN ValueError("get_email", made, <<"Email", "not", "found">>)
        ELSE [calls |-> made,
              ret |-> [Return("get_email") EXCEPT
                         !.data = <<[msg EXCEPT !.body = body, !.attachments = atts]>>]]

GetEmail ==
    /\ Idle
    /\ \E account_id \in ToolAccounts, include_body \in BOOLEAN,
          body_max_length \in {3, 5, 8, 50000}, msg \in Messages :
        \E o \in GraphRuns(account_id, 1) :
            /\ att_sizes' = <<>>
            /\ input' = [NoInput EXCEPT !.account_id = account_id,
                                        !.include_body = include_body,
                                        !.body_max_length = body_max_length,
                                        !.message = <<msg>>]
            /\ Finish(GetEmailOut(account_id, include_body, body_max_length, msg, o))

(***************************************************************************)
(* The other tools that list through graph.request_paginated               *)
(***************************************************************************)
\* tools.py 791-795
FilesEndpoint(path) ==
    IF path = "/" THEN "/me/drive/root/children" ELSE "/me/drive/root:/{path}:/children"

ListContacts ==
    /\ Idle
    /\ \E account_id \in ToolAccounts, limit \in Limits, total \in Totals,
          page \in PageSizes :
        \E o \in PageRuns(account_id, limit) :
            /\ att_sizes' = <<>>
            /\ input' = ListInput(account_id, limit, total, page)
            /\ Finish(ListOut("list_contacts", "/me/contacts", account_id, limit, o,
                              total, page))

ListFiles ==
    /\ Idle
    /\ \E account_id \in ToolAccounts, path \in {"/", "Documents"}, limit \in Limits,
          total \in Totals, page \in PageSizes :
        \E o \in PageRuns(account_id, limit) :
            /\ att_sizes' = <<>>
            /\ input' = ListInput(account_id, limit, total, page)
            \* tools.py 805-815: every item is mapped to a summary, in order
            /\ Finish(ListOut("list_files", FilesEndpoint(path), account_id, limit, o,
                              total, page))

SearchContacts ==
    /\ Idle
    /\ \E account_id \in ToolAccounts, limit \in Limits, total \in Totals,
          page \in PageSizes :
        \E o \in PageRuns(account_id, limit) :
            /\ att_sizes' = <<>>
            /\ input' = ListInput(account_id, limit, total, page)
            /\ Finish(ListOut("search_contacts", "/me/contacts", account_id, limit, o,
                              total, page))

(***************************************************************************)
(* graph.search_query (design document 4.5): one POST with the query and   *)
(* the entity types; the hits carry an @odata.type discriminator.          *)
(***************************************************************************)
Item(id, odata) == [id |-> id, odata |-> odata]

\* the discriminator of a hit of an entity type ("" when the hit has none)
ODataOf(entity_type) ==
    CASE entity_type = "message"   -> "#microsoft.graph.message"
      [] entity_type = "event"     -> "#microsoft.graph.event"
      [] entity_type = "driveItem" -> "#microsoft.graph.driveItem"
      [] entity_type = "listItem"  -> "#microsoft.graph.listItem"
      [] entity_type = "site"      -> "#microsoft.graph.site"
      [] OTHER                     -> ""

\* hits of a search for entity_types: up to MaxItems hits, each of one of
\* the requested types or without discriminator
Hits(entity_types) ==
    LET kinds == {ODataOf(entity_types[i]) : i \in 1..Len(entity_types)} \cup {""}
    IN  UNION {{[i \in 1..n |-> Item(i, f[i])] : f \in [1..n -> kinds]} : n \in 0..MaxItems}

SearchQuery(entity_types, account_id, limit) ==
    [Call("search_query") EXCEPT
        !.account_id = account_id, !.limit = limit, !.inline = entity_types]

\* tools.py 955: search_emails without folder
SearchEmailsOut(account_id, folder, limit, o, total, page, items) ==
    IF folder # ""
    THEN ListOut("search_emails", FolderPath(folder), account_id, limit, o, total, page)
    ELSE LET made == Made(<<SearchQuery(<<"message">>, account_id, limit)>>, o)
         IN  IF IsRaise(o[1]) THEN Propagate("search_emails", made, o[1])
             ELSE [calls |-> made,
                   ret |-> [Return("search_emails") EXCEPT
                              !.count = Len(items), !.data = items]]

SearchEmails ==
    /\ Idle
    /\ \E account_id \in ToolAccounts, folder \in {"", "Inbox"} :
        /\ att_sizes' = <<>>
        /\ IF folder # ""
           THEN \E limit \in Limits, total \in Totals, page \in PageSizes :
                  \E o \in PageRuns(account_id, limit) :
                    /\ input' = ListInput(account_id, limit, total, page)
                    /\ Finish(SearchEmailsOut(account_id, folder, limit, o, total, page, <<>>))
           ELSE \E items \in Hits(<<"message">>) :
                  \E o \in GraphRuns(account_id, 1) :
                    /\ input' = [NoInput EXCEPT !.account_id = account_id, !.limit = 50,
                                                !.items = items]
                    /\ Finish(SearchEmailsOut(account_id, folder, 50, o, 0, 0, items))

(***************************************************************************)
(* unified_search (tools.py 1011-1042)                                     *)
(***************************************************************************)
\* tools.py 1023-1024
Requested(entity_types) ==
    IF entity_types = <<>> THEN <<"message", "event", "driveItem">> ELSE entity_types

\* tools.py 1031: item.get("@odata.type", "").split(".")[-1]
ResourceType(item) ==
    CASE item.odata = "#microsoft.graph.message"   -> "message"
      [] item.odata = "#microsoft.graph.event"     -> "event"
      [] item.odata = "#microsoft.graph.driveItem" -> "driveItem"
      [] item.odata = "#microsoft.graph.listItem"  -> "listItem"
      [] item.odata = "#microsoft.graph.site"      -> "site"
      [] OTHER                                     -> item.odata

\* tools.py 1033-1040: the key an item is filed under
BucketKey(resource_type) ==
    IF resource_type = "message" THEN "message"
    ELSE IF resource_type = "event" THEN "event"
    ELSE IF resource_type \in {"driveItem", "file", "folder"} THEN "driveItem"
    ELSE "other"

\* results.setdefault(key, []).append(item)
SetDefaultAppend(results, key, item) ==
    IF \E i \in 1..Len(results) : results[i].k = key
    THEN [i \in 1..Len(results) |->
            IF results[i].k = key
            THEN [results[i] EXCEPT !.v = Append(results[i].v, item)]
            ELSE results[i]]
    ELSE Append(results, [k |-> key, v |-> <<item>>])

RECURSIVE FileItems(_, _)
FileItems(results, items) ==
    IF items = <<>> THEN results
    ELSE FileItems(SetDefaultAppend(results, BucketKey(ResourceType(items[1])), items[1]),
                   Tail(items))

\* tools.py 1026-1042
Buckets(entity_types, items) ==
    LET results == [i \in 1..Len(entity_types) |-> [k |-> entity_types[i], v |-> <<>>]]
    IN  SelectSeq(FileItems(results, items), LAMBDA e : e.v # <<>>)

UnifiedSearchOut(account_id, entity_types, items, o) ==
    LET types == Requested(entity_types)
        made  == Made(<<SearchQuery(types, account_id, 50)>>, o)
    IN  IF IsRaise(o[1]) THEN Propagate("unified_search", made, o[1])
        ELSE [calls |-> made,
              ret |-> [Return("unified_search") EXCEPT !.data = Buckets(types, items)]]

UnifiedSearch ==
    /\ Idle
    /\ \E account_id \in ToolAccounts,
          entity_types \in {<<>>, <<"message", "event">>, <<"site">>,
                            <<"driveItem", "listItem">>} :
        \E items \in Hits(Requested(entity_types)) :
            \E o \in GraphRuns(account_id, 1) :
                /\ att_sizes' = <<>>
                /\ input' = [NoInput EXCEPT !.account_id = account_id,
                                            !.entity_types = entity_types,
                                            !.items = items]
                /\ Finish(UnifiedSearchOut(account_id, entity_types, items, o))

(***************************************************************************)
(* The request engine, graph.request, after the design document (4.2, 7).  *)
(* One call resolves a token and sends HTTP attempts until one settles it. *)
(***************************************************************************)
\* retries of one call after 429, 503 or a network failure
RetryBudget == 3

Transient == {"429", "503", "network"}
Statuses == {"200", "204", "400", "401", "404", "500"} \cup Transient
Failures ==
    {"ReauthRequired", "TransientServiceError", "PermanentRequestError"}

NoHttp ==
    [phase |-> "idle", account_id |-> "", attempts |-> <<>>, retries |-> 0,
     refreshes |-> 0, outcome |-> ""]

Settled(h, status, outcome) ==
    [h EXCEPT !.phase = "done", !.attempts = Append(h.attempts, status),
              !.outcome = outcome]

Again(h, status) == [h EXCEPT !.attempts = Append(h.attempts, status)]

\* variant: a transient failure is retried however often it happened
MayRetryForever(retries) == TRUE

\* a transient failure is retried while the budget lasts
MayRetry(retries) == retries < RetryBudget

\* what the engine does with the status of an attempt
OnStatus(h, status) ==
    IF status = "200" THEN Settled(h, status, "response")
    ELSE IF status = "204" THEN Settled(h, status, "absent")
    ELSE IF status \in Transient
    THEN IF MayRetry(h.retries)
         THEN [Again(h, status) EXCEPT !.retries = h.retries + 1]
         ELSE Settled(h, status, "TransientServiceError")
    ELSE IF status = "401"
    THEN IF h.refreshes = 0
         THEN [Again(h, status) EXCEPT !.refreshes = 1]
         ELSE Settled(h, status, "ReauthRequired")
    ELSE Settled(h, status, "PermanentRequestError")

\* execute(method, path, account_id): the token is resolved first
Execute ==
    /\ http.phase = "idle"
    /\ \E account_id \in ToolAccounts :
        http' = IF account_id \in CachedIds
                THEN [NoHttp EXCEPT !.phase = "sending", !.account_id = account_id]
                ELSE [NoHttp EXCEPT !.phase = "done", !.account_id = account_id,
                                    !.outcome = "ReauthRequired"]
    /\ UNCHANGED <<token_cache, has_state_changed, persisted, svc, uri_key, outputs,
                   session, thr>>

\* the service (or the network) answers the attempt in flight
Attempt ==
    /\ http.phase = "sending"
    /\ \E status \in Statuses : http' = OnStatus(http, status)
    /\ UNCHANGED <<token_cache, has_state_changed, persisted, svc, uri_key, outputs,
                   session, thr>>

\* the call has returned or raised; the engine keeps no state across calls
Settle ==
    /\ http.phase = "done"
    /\ http' = NoHttp
    /\ UNCHANGED <<token_cache, has_state_changed, persisted, svc, uri_key, outputs,
                   session, thr>>

(***************************************************************************)
(* The chunked upload engine, graph.upload_large_mail_attachment, after    *)
(* the design document (3, 4.4).                                           *)
(***************************************************************************)
ChunkUnit == 320 * 1024
\* chunk sizes: multiples of the unit
ChunkSizes == {4 * ChunkUnit, 15 * ChunkUnit}
PayloadSizes == {AttachmentThreshold, 5 * 1024 * 1024}

NoSession ==
    [phase |-> "idle", total_size |-> 0, chunk_size |-> 0, next_expected_offset |-> 0,
     retries |-> 0, sent |-> <<>>, accepted |-> <<>>, outcome |-> ""]

\* the byte range [start, end) of the chunk to submit next
NextRange(u) ==
    [start |-> u.next_expected_offset,
     end   |-> Min(u.next_expected_offset + u.chunk_size, u.total_size)]

ChunkAnswers == {"accepted", "transient", "expired", "mismatch"}

\* variant: after a transient failure the upload goes on with the next range
OffsetAfterSkipping(u, answer) ==
    IF answer \in {"accepted", "transient"} THEN NextRange(u).end
    ELSE u.next_expected_offset

\* the offset advances over an accepted chunk and stays otherwise
OffsetAfter(u, answer) ==
    IF answer = "accepted" THEN NextRange(u).end ELSE u.next_expected_offset

OnChunk(u, answer) ==
    LET r    == NextRange(u)
        sent == Append(u.sent, [start |-> r.start, end |-> r.end, answer |-> answer])
        next == OffsetAfter(u, answer)
    IN  IF answer = "accepted"
        THEN [u EXCEPT !.sent = sent, !.accepted = Append(u.accepted, r),
                       !.next_expected_offset = next, !.retries = 0,
                       !.phase = IF next = u.total_size THEN "done" ELSE "open",
                       !.outcome = IF next = u.total_size THEN "item" ELSE ""]
        ELSE IF answer = "transient"
        THEN IF MayRetry(u.retries)
             THEN [u EXCEPT !.sent = sent, !.retries = u.retries + 1,
                            !.next_expected_offset = next]
             ELSE [u EXCEPT !.sent = sent, !.phase = "failed",
                            !.outcome = "TransientServiceError"]
        ELSE IF answer = "expired"
        THEN [u EXCEPT !.sent = sent, !.phase = "failed", !.outcome = "SessionExpired"]
        ELSE [u EXCEPT !.sent = sent, !.phase = "failed", !.outcome = "ProtocolViolation"]

CreateSession ==
    /\ session.phase = "idle"
    /\ \E total_size \in PayloadSizes, chunk_size \in ChunkSizes :
        session' = [NoSession EXCEPT !.phase = "open", !.total_size = total_size,
                                     !.chunk_size = chunk_size]
    /\ UNCHANGED <<token_cache, has_state_changed, persisted, svc, uri_key, outputs,
                   http, thr>>

UploadChunk ==
    /\ session.phase = "open"
    /\ \E answer \in ChunkAnswers : session' = OnChunk(session, answer)
    /\ UNCHANGED <<token_cache, has_state_changed, persisted, svc, uri_key, outputs,
                   http, thr>>

\* the upload returned the item or raised; the session is gone
CloseSession ==
    /\ session.phase \in {"done", "failed"}
    /\ session' = NoSession
    /\ UNCHANGED <<token_cache, has_state_changed, persisted, svc, uri_key, outputs,
                   http, thr>>

(***************************************************************************)
(* complete_authentication run by harness threads (tools.py 126-142): the  *)
(* statements of two invocations that both succeed, one step at a time, on *)
(* the process-wide cache.                                                 *)
(***************************************************************************)
Threads == {1, 2}
NoThread == [pc |-> "idle", blob |-> <<>>]

\* the account each invocation signs in
SignsIn(t) ==
    IF t = 1 THEN [home_account_id |-> "uid2.tenantA", username |-> "bob@x.com"]
    ELSE [home_account_id |-> "uid3.tenantB", username |-> "alice@x.com"]

\* tools.py 127: result = app.acquire_token_by_device_flow(flow)
AcquireToken(t) ==
    /\ thr[t].pc = "idle"
    /\ token_cache' = CacheAdd(token_cache, SignsIn(t), 2)
    /\ has_state_changed' = TRUE
    /\ thr' = [thr EXCEPT ![t].pc = "test"]
    /\ UNCHANGED <<persisted, svc, uri_key, outputs, http, session>>

\* tools.py 141: if ... cache.has_state_changed
TestChanged(t) ==
    /\ thr[t].pc = "test"
    /\ thr' = [thr EXCEPT ![t].pc = IF ShouldWrite(has_state_changed)
                                    THEN "serialize" ELSE "done"]
    /\ UNCHANGED <<token_cache, has_state_changed, persisted, svc, uri_key, outputs,
                   http, session>>

\* tools.py 142: cache.serialize(), the argument of _write_cache
SerializeCache(t) ==
    /\ thr[t].pc = "serialize"
    /\ thr' = [thr EXCEPT ![t].pc = "write", ![t].blob = Serialize(token_cache)]
    /\ has_state_changed' = FALSE
    /\ UNCHANGED <<token_cache, persisted, svc, uri_key, outputs, http, session>>

\* tools.py 142: auth._write_cache(...)
WriteCache(t) ==
    /\ thr[t].pc = "write"
    /\ persisted' = thr[t].blob
    /\ thr' = [thr EXCEPT ![t].pc = "done"]
    /\ UNCHANGED <<token_cache, has_state_changed, svc, uri_key, outputs, http, session>>

(***************************************************************************)
(* Startup: the cache is loaded from the persisted blob.                   *)
(***************************************************************************)
StartupBlobs ==
    { <<>>,
      <<<<"uid1.tenantA", "Alice@x.com", 1>>>>,
      <<<<"uid2.tenantA", "bob@x.com", 1>>, <<"uid1.tenantA", "Alice@x.com", 1>>>> }

Init ==
    /\ persisted \in StartupBlobs
    /\ token_cache = Deserialize(persisted)
    /\ has_state_changed = FALSE
    /\ svc = [d \in DeviceCodes |-> "unissued"]
    /\ uri_key \in UriShapes
    /\ flow_cache = <<>> /\ flow = <<>> /\ result = NoResult /\ att_sizes = <<>>
    /\ calls = <<>> /\ ret = NoRet
    /\ input = NoInput
    /\ http = NoHttp /\ session = NoSession
    /\ thr = [t \in Threads |-> NoThread]

Next ==
    \/ ListAccounts
    \/ AuthenticateAccount
    \/ CompleteAuthentication
    \/ ListEmails
    \/ UserVerifies
    \/ FlowDies
    \/ Deliver

Spec == Init /\ [][Next]_vars

\* the mail tools with their attachments, next to authenticate_account and
\* list_accounts
NextTools ==
    \/ ListAccounts
    \/ AuthenticateAccount
    \/ ListEmails
    \/ CreateEmailDraft
    \/ SendEmail
    \/ Deliver

SpecTools == Init /\ [][NextTools]_vars

\* the tools that map one call to one or two graph calls
NextGlue ==
    \/ UpdateEmail
    \/ DeleteEmail
    \/ MoveEmail
    \/ ReplyToEmail
    \/ ReplyAllEmail
    \/ GetEmail
    \/ GetEvent
    \/ CreateEvent
    \/ UpdateEvent
    \/ DeleteEvent
    \/ RespondEvent
    \/ CheckAvailability
    \/ ListContacts
    \/ GetContact
    \/ CreateContact
    \/ UpdateContact
    \/ DeleteContact
    \/ ListFiles
    \/ DeleteFile
    \/ SearchEmails
    \/ SearchContacts
    \/ UnifiedSearch
    \/ ListEmails
    \/ CreateEmailDraft
    \/ SendEmail
    \/ Deliver

SpecGlue == Init /\ [][NextGlue]_vars

\* one call of the request engine, attempt by attempt
NextRequest ==
    \/ Execute
    \/ Attempt
    \/ Settle

SpecRequest == Init /\ [][NextRequest]_vars

\* one upload session, chunk by chunk
NextUpload ==
    \/ CreateSession
    \/ UploadChunk
    \/ CloseSession

SpecUpload == Init /\ [][NextUpload]_vars

\* two complete_authentication invocations on two harness threads
NextThreads ==
    \E t \in Threads :
        \/ AcquireToken(t)
        \/ TestChanged(t)
        \/ SerializeCache(t)
        \/ WriteCache(t)

SpecThreads == Init /\ [][NextThreads]_vars

(***************************************************************************)
(* Properties                                                              *)
(***************************************************************************)
CompletionDone == ret.op = "complete_authentication"
Polls == NCalls(calls, "acquire_token_by_device_flow")
Writes == NCalls(calls, "_write_cache")
Initiations == NCalls(calls, "initiate_device_flow")
MiB == 1024 * 1024

\* how often attachment j went through the chunked upload path
Chunked(j) ==
    Cardinality({i \in 1..Len(calls) :
        calls[i].fn = "upload_large_mail_attachment" /\ calls[i].att = j})

\* how often attachment j went in a single request: inline in a message body,
\* or as one attachment POST
OneShot(j) ==
    Cardinality({i \in 1..Len(calls) :
        calls[i].fn = "request"
        /\ (calls[i].att = j \/ \E k \in 1..Len(calls[i].inline) : calls[i].inline[k] = j)})

\* C1: in create_email_draft and send_email an attachment takes the chunked
\* upload path only if its size is at least 3 MiB and a single inline or
\* one-shot request only if it is smaller; when the tool returns, every
\* attachment was sent exactly once, by the path its size selects.
C1_ThresholdRouting ==
    ret.op \in {"create_email_draft", "send_email"} =>
        \A j \in 1..Len(att_sizes) :
            /\ Chunked(j) > 0 => att_sizes[j] >= 3 * MiB
            /\ OneShot(j) > 0 => att_sizes[j] < 3 * MiB
            /\ ret.outcome = "return" =>
                  /\ Chunked(j) = (IF att_sizes[j] >= 3 * MiB THEN 1 ELSE 0)
                  /\ OneShot(j) = (IF att_sizes[j] >= 3 * MiB THEN 0 ELSE 1)

C1_Witness ==
    /\ ret.op = "create_email_draft" /\ ret.outcome = "return"
    /\ \E i, j \in 1..Len(att_sizes) :
          /\ att_sizes[i] = 3 * MiB - 1 /\ OneShot(i) = 1
          /\ att_sizes[j] = 3 * MiB /\ Chunked(j) = 1

\* C2: whenever the identity service answers a completion with the
\* authorization_pending error, with or without an error_description,
\* complete_authentication returns status "pending" and does not raise.
C2_PendingIsReported ==
    (CompletionDone /\ result.kind = "error" /\ result.error = PendingCode) =>
        (ret.outcome = "return" /\ ret.status = "pending")

\* C3: for every error answer other than authorization_pending,
\* complete_authentication raises: it returns neither "pending" nor "success"
\* nor an account, and it does not write the persisted cache.
C3_OtherErrorsRaise ==
    (CompletionDone /\ result.kind = "error" /\ result.error # PendingCode) =>
        (ret.outcome = "raise" /\ ret.account_id = "" /\ Writes = 0)

\* C4: the persisted blob always equals the serialized in-memory cache, and a
\* tool call writes it (once, in a successful complete_authentication) exactly
\* when the call changed the in-memory cache.
C4_WriteAfterMutate ==
    /\ [](persisted = Serialize(token_cache) /\ Writes <= 1)
    /\ [][Idle =>
            /\ (token_cache' # token_cache) <=> (NCalls(calls', "_write_cache") = 1)
            /\ NCalls(calls', "_write_cache") = 1 =>
                  /\ ret'.op = "complete_authentication" /\ ret'.status = "success"
                  /\ persisted' = Serialize(token_cache')
            /\ NCalls(calls', "_write_cache") = 0 => persisted' = persisted]_vars

C4_Witness ==
    /\ CompletionDone /\ ret.status = "success" /\ Writes = 1
    /\ Len(token_cache) >= 2 /\ persisted = Serialize(token_cache)

\* C5: a successful completion returns the first enumerated account whose
\* username equals the token's preferred_username ignoring case, and the last
\* enumerated account if there is none; the returned id and username are those
\* of one enumerated account.
C5_MatchOrLast ==
    (CompletionDone /\ ret.status = "success") =>
        LET accounts == GetAccounts(token_cache)
            claim    == IF result.has_pref THEN result.preferred_username ELSE ""
            hits     == {i \in 1..Len(accounts) : Lower(accounts[i].username) = Lower(claim)}
            pick     == IF hits # {} THEN CHOOSE i \in hits : \A j \in hits : i <= j
                        ELSE Len(accounts)
        IN  /\ accounts # <<>>
            /\ ret.account_id = accounts[pick].home_account_id
            /\ ret.username = accounts[pick].username

C5_Witness ==
    /\ CompletionDone /\ ret.status = "success"
    /\ result.has_pref /\ result.preferred_username # ret.username
    /\ Lower(result.preferred_username) = Lower(ret.username)
    /\ Len(token_cache) >= 2
    /\ ret.account_id # token_cache[Len(token_cache)].home_account_id

\* C6: in a process that already holds signed-in accounts, every successful
\* completion returns the account for which the token was just issued.
C6_ReturnsIssuedAccount ==
    [][(Idle /\ Len(token_cache) >= 1
        /\ ret'.op = "complete_authentication" /\ ret'.status = "success")
       => ret'.account_id = result'.home_account_id]_vars

\* C7: authenticate_account raises when the service's answer has no user
\* code; otherwise it returns the answer's user code, the answer's
\* verification URL (verification_uri, else the older verification_url key,
\* else the default device-login URL) and a flow string that parses back to
\* the same flow; it persists nothing.
C7_AuthenticateVerbatim ==
    /\ [](ret.op = "authenticate_account" =>
            /\ Writes = 0
            /\ IF ~Has(flow, "user_code")
               THEN ret.outcome = "raise"
               ELSE /\ ret.outcome = "return"
                    /\ ret.device_code = Get(flow, "user_code", PyS("")).v
                    /\ Has(flow, "verification_uri") =>
                          ret.verification_url = Get(flow, "verification_uri", PyS("")).v
                    /\ (~Has(flow, "verification_uri") /\ Has(flow, "verification_url")) =>
                          ret.verification_url = Get(flow, "verification_url", PyS("")).v
                    /\ (~Has(flow, "verification_uri") /\ ~Has(flow, "verification_url")) =>
                          ret.verification_url = "https://microsoft.com/devicelogin"
                    /\ LiteralEval(flow_cache).ok
                    /\ LiteralEval(flow_cache).value = flow)
    /\ [][(Idle /\ ret'.op = "authenticate_account") =>
            (persisted' = persisted /\ token_cache' = token_cache)]_vars

C7_Witness ==
    /\ ret.op = "authenticate_account" /\ ret.outcome = "return"
    /\ Has(flow, "verification_uri")
    /\ ret.verification_url = "https://login.example/device"
    /\ ret.device_code = "UC-1"
    /\ LiteralEval(flow_cache).value = flow

\* C8: one complete_authentication call polls the identity service exactly
\* once when its flow value parses, also when the answer is pending, and not
\* at all when the flow value is malformed, which raises ValueError without
\* touching the token cache.
C8_OnePollPerCall ==
    /\ [](CompletionDone =>
            IF LiteralEval(flow_cache).ok
            THEN Polls = 1
            ELSE /\ Polls = 0 /\ calls = <<>>
                 /\ ret.outcome = "raise" /\ ret.exc = "ValueError")
    /\ [][(Idle /\ ret'.op = "complete_authentication" /\ ~LiteralEval(flow_cache').ok) =>
            (token_cache' = token_cache /\ persisted' = persisted
             /\ has_state_changed' = has_state_changed)]_vars

C8_Witness ==
    /\ CompletionDone /\ ret.status = "pending" /\ Polls = 1
    /\ result.error = PendingCode

\* C9: once a complete_authentication call with a flow has succeeded, no
\* later call with the same flow value submits it to the identity service.
C9_FlowConsumedOnce ==
    [][(Idle /\ ret'.op = "complete_authentication" /\ LiteralEval(flow_cache').ok
        /\ svc[DevOf(LiteralEval(flow_cache').value)] = "redeemed")
       => NCalls(calls', "acquire_token_by_device_flow") = 0]_vars

\* C10: device-flow initiation is called only inside authenticate_account
\* and a flow is completed only inside complete_authentication; a tool whose
\* graph call fails for lack of a usable token makes no further call and
\* raises that failure to its caller.
C10_NoAutomaticLogin ==
    /\ Initiations > 0 => ret.op = "authenticate_account"
    /\ Polls > 0 => ret.op = "complete_authentication"
    /\ \A i \in 1..Len(calls) :
          calls[i].outcome = "ReauthRequired" =>
              /\ i = Len(calls)
              /\ ret.outcome = "raise" /\ ret.exc = "ReauthRequired"
              /\ Initiations = 0 /\ Polls = 0

C10_Witness ==
    /\ ret.op = "list_emails" /\ ret.outcome = "raise" /\ ret.exc = "ReauthRequired"
    /\ Len(calls) = 1 /\ calls[1].outcome = "ReauthRequired"
    /\ svc[1] = "pending"

AllReturned == \A i \in 1..Len(calls) : ~IsRaise(calls[i].outcome)
SomeAbsent == \E i \in 1..Len(calls) : calls[i].outcome = "absent"
DraftAbsent ==
    /\ calls # <<>>
    /\ calls[1].path = "/me/messages" /\ calls[1].outcome = "absent"

NoPayloadOps ==
    {"delete_email", "delete_event", "delete_contact", "delete_file",
     "reply_to_email", "reply_all_email", "respond_event", "send_email"}
PayloadOps ==
    {"get_email", "get_event", "get_contact", "create_event", "create_contact",
     "create_email_draft", "update_email", "move_email", "check_availability"}
GraphOps ==
    NoPayloadOps \cup PayloadOps
    \cup {"update_event", "update_contact", "list_emails", "list_contacts",
          "list_files", "search_emails", "search_contacts", "unified_search"}

SuccessStatus ==
    CASE ret.op \in {"delete_email", "delete_event", "delete_contact", "delete_file"}
            -> "deleted"
      [] ret.op \in {"reply_to_email", "reply_all_email", "send_email"} -> "sent"
      [] ret.op = "respond_event" -> calls[1].arg
      [] OTHER -> ""

\* C11 as stated: a graph call without a body is never a failure for the
\* tools that need no payload (the delete tools, the reply tools,
\* respond_event and send_email return their status; update_event and
\* update_contact return status "updated"); only get_*, create_*,
\* update_email, move_email and check_availability turn it into a ValueError;
\* and a tool returns only if none of its graph calls raised.
C11_AbsentNeverFails ==
    /\ (ret.op \in NoPayloadOps /\ AllReturned) =>
          (ret.outcome = "return" /\ ret.status = SuccessStatus)
    /\ (ret.op \in {"update_event", "update_contact"} /\ SomeAbsent) =>
          (ret.outcome = "return" /\ ret.status = "updated")
    /\ (ret.outcome = "raise" /\ ret.exc = "ValueError" /\ SomeAbsent) =>
          ret.op \in PayloadOps
    /\ (ret.op \in GraphOps /\ ret.outcome = "return") => AllReturned

\* C11 amended: as stated, except that send_email with an attachment of
\* 3 MiB or more needs the draft it creates: a draft creation without a body
\* raises ValueError, and every other graph call of send_email may come
\* back without a body.
C11_AbsentFailsOnlyWherePayloadNeeded ==
    /\ (ret.op \in NoPayloadOps /\ AllReturned /\ ~(ret.op = "send_email" /\ DraftAbsent)) =>
          (ret.outcome = "return" /\ ret.status = SuccessStatus)
    /\ (ret.op = "send_email" /\ DraftAbsent) =>
          (ret.outcome = "raise" /\ ret.exc = "ValueError" /\ Len(calls) = 1)
    /\ (ret.op \in {"update_event", "update_contact"} /\ SomeAbsent) =>
          (ret.outcome = "return" /\ ret.status = "updated")
    /\ (ret.outcome = "raise" /\ ret.exc = "ValueError" /\ SomeAbsent) =>
          (ret.op \in PayloadOps \/ (ret.op = "send_email" /\ DraftAbsent))
    /\ (ret.op \in GraphOps /\ ret.outcome = "return") => AllReturned

C11_Witness ==
    /\ ret.op = "send_email" /\ ret.outcome = "return" /\ ret.status = "sent"
    /\ Len(calls) >= 3
    /\ calls[1].outcome = "ok"
    /\ \A i \in 2..Len(calls) : calls[i].outcome = "absent"

GraphFns ==
    {"request", "request_paginated", "upload_large_mail_attachment", "search_query"}

\* C12: every request, pagination, upload and search call of an invocation
\* carries the account_id the tool was called with, in every step of the
\* tools that make several calls.
C12_AccountCarried ==
    ret.op \in GraphOps =>
        /\ input.account_id \in ToolAccounts
        /\ \A i \in 1..Len(calls) :
              /\ calls[i].fn \in GraphFns
              /\ calls[i].account_id = input.account_id

C12_Witness ==
    /\ ret.op = "send_email" /\ ret.outcome = "return"
    /\ Len(calls) >= 4
    /\ \E i \in 1..Len(calls) : calls[i].fn = "upload_large_mail_attachment"
    /\ Len(token_cache) = 2
    /\ token_cache[1].home_account_id # input.account_id

ListOps ==
    {"list_emails", "list_contacts", "list_files", "search_contacts", "search_emails"}

RECURSIVE Delivered(_, _)
\* the items the first k page responses of a walk carried
Delivered(log, k) == IF k = 0 THEN 0 ELSE Delivered(log, k - 1) + log[k].n

\* C13: a list tool asks for pages of min(limit, 100) items; the walk asks
\* for a page only after a response with a cursor and only while fewer than
\* limit items were delivered; limit 0 makes no request and yields nothing;
\* the tool returns the first min(limit, total) items in the service's
\* order, and when limit exceeds the total it stops on a response without
\* cursor.
C13_PaginationBounded ==
    (ret.op \in ListOps /\ calls # <<>> /\ calls[1].fn = "request_paginated") =>
        LET c     == calls[1]
            log   == c.pages
            limit == input.limit
            total == input.total
        IN  /\ c.top = (IF limit < 100 THEN limit ELSE 100)
            /\ c.limit = limit
            /\ \A i \in 2..Len(log) :
                  /\ log[i - 1].cursor
                  /\ Delivered(log, i - 1) < limit
                  /\ log[i].offset = Delivered(log, i - 1)
            /\ limit = 0 => (log = <<>> /\ ret.outcome = "return" /\ ret.items = <<>>)
            /\ ret.outcome = "return" =>
                  /\ Len(ret.items) <= limit
                  /\ ret.items = [k \in 1..(IF total < limit THEN total ELSE limit) |-> k]
                  /\ ret.count = Len(ret.items)
                  /\ (limit > total) => (log # <<>> /\ ~log[Len(log)].cursor)

C13_Witness ==
    /\ ret.op = "list_contacts" /\ ret.outcome = "return"
    /\ input.limit = 3 /\ input.total = 5
    /\ Len(calls[1].pages) = 2
    /\ calls[1].pages[2].cursor
    /\ ret.items = <<1, 2, 3>>

TransientAnswers == {i \in 1..Len(http.attempts) : http.attempts[i] \in Transient}
Unauthorized == {i \in 1..Len(http.attempts) : http.attempts[i] = "401"}
LastStatus == IF http.attempts = <<>> THEN "" ELSE http.attempts[Len(http.attempts)]

\* C14: one call of the request engine retries a 429, a 503 or a network
\* failure at most 3 times and fails with TransientServiceError only on the
\* one after; the first 401 is answered by one token refresh and one retry;
\* every other status ends the call at once; a call makes at most 5 attempts
\* and ends in a response, Absent or exactly one failure.
C14_BoundedAttempts ==
    /\ Cardinality(TransientAnswers) <= 3 + 1
    /\ http.retries <= 3
    /\ http.retries = Cardinality(TransientAnswers)
                        - (IF http.outcome = "TransientServiceError" THEN 1 ELSE 0)
    /\ Cardinality(Unauthorized) <= 2
    /\ http.refreshes = (IF Unauthorized = {} THEN 0 ELSE 1)
    /\ Len(http.attempts) <= 3 + 2
    /\ \A i \in 1..Len(http.attempts) :
          (i \notin TransientAnswers /\ i \notin Unauthorized) =>
              (i = Len(http.attempts) /\ http.phase = "done")
    /\ http.phase = "sending" => http.outcome = ""
    /\ http.phase = "done" =>
          /\ http.outcome \in {"response", "absent"} \cup Failures
          /\ http.outcome = "response" <=> LastStatus = "200"
          /\ http.outcome = "absent" <=> LastStatus = "204"
          /\ http.outcome = "TransientServiceError" <=> LastStatus \in Transient
          /\ http.outcome = "TransientServiceError" => Cardinality(TransientAnswers) = 3 + 1
          /\ http.outcome = "PermanentRequestError" <=> LastStatus \in {"400", "404", "500"}
          /\ http.outcome = "ReauthRequired" <=> LastStatus \in {"", "401"}
          /\ LastStatus = "401" => Cardinality(Unauthorized) = 2

C14_Witness ==
    /\ http.phase = "done" /\ http.outcome = "response"
    /\ Len(http.attempts) = 5
    /\ Cardinality(TransientAnswers) = 3
    /\ Cardinality(Unauthorized) = 1

\* C15: the chunks a session's service accepted are contiguous, ascending
\* and start at 0; the next expected offset is the end of the last accepted
\* chunk and never decreases; the attempt after a transient failure has the
\* same byte range and the attempt after an accepted chunk starts at its
\* end; a completed upload ends at the total size, and 5 MiB take at least
\* two chunks.
C15_ChunksContiguous ==
    /\ [](LET acc  == session.accepted
              sent == session.sent
          IN  /\ \A i \in 1..Len(acc) :
                    /\ acc[i].start < acc[i].end
                    /\ acc[i].end <= session.total_size
                    /\ acc[i].start = (IF i = 1 THEN 0 ELSE acc[i - 1].end)
              /\ session.next_expected_offset =
                    (IF acc = <<>> THEN 0 ELSE acc[Len(acc)].end)
              /\ \A i \in 2..Len(sent) :
                    /\ sent[i - 1].answer = "transient" =>
                          (sent[i].start = sent[i - 1].start /\ sent[i].end = sent[i - 1].end)
                    /\ sent[i - 1].answer = "accepted" => sent[i].start = sent[i - 1].end
              /\ session.phase = "done" =>
                    /\ acc # <<>>
                    /\ acc[Len(acc)].end = session.total_size
                    /\ session.total_size = 5 * MiB => Len(acc) >= 2)
    /\ [][session.phase = "open" =>
            session'.next_expected_offset >= session.next_expected_offset]_vars

C15_Witness ==
    /\ session.phase = "done" /\ session.total_size = 5 * MiB
    /\ Len(session.accepted) = 2
    /\ session.accepted[2].end = 5 * MiB
    /\ \E i \in 1..Len(session.sent) : session.sent[i].answer = "transient"

\* C16: two complete_authentication invocations for two accounts that run
\* at once and both succeed leave, when both have finished, a persisted
\* cache that is the serialized in-memory cache and holds both accounts: no
\* write has overwritten the other's.
C16_WritesSerialized ==
    (\A t \in Threads : thr[t].pc = "done") =>
        /\ persisted = Serialize(token_cache)
        /\ \A t \in Threads :
              \E i \in 1..Len(persisted) : persisted[i][1] = SignsIn(t).home_account_id

SendRequests ==
    {i \in 1..Len(calls) :
        calls[i].path \in {"/me/sendMail", "/me/messages/{message_id}/send"}}

\* C17: send_email makes at most one send request and makes it last; when it
\* returns "sent" it made exactly one: alone, with every attachment inline,
\* when no attachment has 3 MiB, and otherwise after the draft creation and
\* after one attach step per attachment in input order (an upload session
\* from 3 MiB on, one attachment POST below).  After a draft creation without
\* body or a failed step there is no send request and no "sent".
C17_SendOnceAndLast ==
    ret.op = "send_email" =>
        LET large == \E j \in 1..Len(att_sizes) : att_sizes[j] >= 3 * MiB
        IN  /\ Cardinality(SendRequests) <= 1
            /\ \A i \in SendRequests : i = Len(calls)
            /\ ret.outcome = "return" =>
                  /\ ret.status = "sent"
                  /\ Cardinality(SendRequests) = 1
                  /\ AllReturned
                  /\ IF ~large
                     THEN /\ Len(calls) = 1
                          /\ calls[1].path = "/me/sendMail"
                          /\ calls[1].inline = Indices(att_sizes)
                     ELSE /\ Len(calls) = Len(att_sizes) + 2
                          /\ calls[1].path = "/me/messages"
                          /\ calls[1].outcome = "ok"
                          /\ calls[Len(calls)].path = "/me/messages/{message_id}/send"
                          /\ \A j \in 1..Len(att_sizes) :
                                /\ calls[j + 1].att = j
                                /\ calls[j + 1].size = att_sizes[j]
                                /\ IF att_sizes[j] >= 3 * MiB
                                   THEN calls[j + 1].fn = "upload_large_mail_attachment"
                                   ELSE /\ calls[j + 1].fn = "request"
                                        /\ calls[j + 1].path =
                                              "/me/messages/{message_id}/attachments"
            /\ (DraftAbsent \/ \E i \in 1..Len(calls) :
                                  IsRaise(calls[i].outcome) /\ i \notin SendRequests) =>
                  (SendRequests = {} /\ ret.outcome = "raise")
            /\ ~AllReturned => ret.outcome = "raise"

C17_Witness ==
    /\ ret.op = "send_email" /\ ret.outcome = "return"
    /\ Len(att_sizes) = 2
    /\ att_sizes[1] < 3 * MiB /\ att_sizes[2] >= 3 * MiB
    /\ Len(calls) = 4
    /\ calls[2].fn = "request" /\ calls[3].fn = "upload_large_mail_attachment"

\* C18: get_email returns a body content of at most body_max_length
\* characters when include_body is true, marks a cut body truncated with the
\* original length as total_length, returns no body when include_body is
\* false, and returns no attachment with contentBytes.
C18_BodyWithinLimit ==
    (ret.op = "get_email" /\ ret.outcome = "return") =>
        LET m   == ret.data[1]
            src == input.message[1]
            cut == /\ input.include_body /\ src.body.has_content
                   /\ Len(src.body.content) > input.body_max_length
        IN  /\ (input.include_body /\ m.body.has_content) =>
                  Len(m.body.content) <= input.body_max_length
            /\ cut => (m.body.truncated /\ m.body.total_length = Len(src.body.content))
            /\ ~input.include_body => ~m.body.present
            /\ \A i \in 1..Len(m.attachments) : ~m.attachments[i].has_bytes

EntityTypeNames ==
    {"message", "event", "drive", "driveItem", "list", "listItem", "site"}

\* C19: unified_search returns every hit in exactly one bucket, the buckets
\* keep the hits' relative order, no bucket is empty, a hit whose
\* discriminator names a requested entity type is under that type's key, and
\* without entity_types the search is for message, event and driveItem.
C19_BucketsPartition ==
    (ret.op = "unified_search" /\ ret.outcome = "return") =>
        LET B     == ret.data
            items == input.items
            types == IF input.entity_types = <<>> THEN <<"message", "event", "driveItem">>
                     ELSE input.entity_types
            Places(x) == {<<b, j>> \in (1..Len(B)) \X (1..MaxItems + 1) :
                             j <= Len(B[b].v) /\ B[b].v[j] = x}
        IN  /\ calls[1].inline = types
            /\ \A i \in 1..Len(items) : Cardinality(Places(items[i])) = 1
            /\ \A b \in 1..Len(B) :
                  /\ B[b].v # <<>>
                  /\ \A j \in 1..Len(B[b].v) :
                        /\ \E i \in 1..Len(items) : items[i] = B[b].v[j]
                        /\ j > 1 => B[b].v[j - 1].id < B[b].v[j].id
            /\ \A i \in 1..Len(items) : \A t \in 1..Len(types) :
                  (types[t] \in EntityTypeNames /\ items[i].odata = ODataOf(types[t])) =>
                      \E b \in 1..Len(B) :
                          /\ B[b].k = types[t]
                          /\ \E j \in 1..Len(B[b].v) : B[b].v[j] = items[i]

MoveRequests ==
    {i \in 1..Len(calls) : calls[i].path = "/me/messages/{email_id}/move"}

\* C20: move_email sends at most one move request, and only with the id of
\* the first listed folder whose display name equals the alias-mapped
\* destination ignoring case; when the listing has no body, no items array
\* or no such folder it raises ValueError without a move request; when it
\* returns, the status is "moved" and the id is the one the move answered.
C20_MoveAfterResolve ==
    ret.op = "move_email" =>
        LET L       == input.listing
            want    == Lower(FolderPath(input.destination))
            matches == {i \in 1..Len(L.value) : Lower(L.value[i].displayName) = want}
            resolved == calls[1].outcome = "ok" /\ L.has_value /\ matches # {}
        IN  /\ Cardinality(MoveRequests) <= 1
            /\ calls[1].path = "/me/mailFolders"
            /\ MoveRequests # {} =>
                  /\ resolved
                  /\ MoveRequests = {2}
                  /\ calls[2].arg =
                        L.value[CHOOSE i \in matches : \A j \in matches : i <= j].id
            /\ (~IsRaise(calls[1].outcome) /\ ~resolved) =>
                  /\ ret.outcome = "raise" /\ ret.exc = "ValueError"
                  /\ MoveRequests = {}
            /\ ret.outcome = "return" =>
                  /\ ret.status = "moved"
                  /\ ret.value = input.message[1] /\ ret.value # ""
                  /\ Len(calls) = 2 /\ calls[2].outcome = "ok"

C20_Witness ==
    /\ ret.op = "move_email" /\ ret.outcome = "return" /\ ret.status = "moved"
    /\ input.destination = "Projects"
    /\ calls[2].arg = "F-p1"
    /\ ret.value = "M-2"

====
